---- MODULE Spec2Model ----
(***************************************************************************)
(* The Mocktioneer bidder adapter (src/openrtb_ext/imp_mocktioneer.go):    *)
(* MakeRequests builds the single outbound request of an auction request,  *)
(* rewriting every line item's extension in place; MakeBids maps the       *)
(* upstream reply back to typed bids.                                      *)
(*                                                                         *)
(* JSON is modelled by its structure.  A scalar field of an object is a    *)
(* record [k, v]: k is "absent", "str" or "num", and v the text of the     *)
(* value as it stands on the wire, so that the number literals 5.5 and     *)
(* 5.50 are different texts of the same float64.  A float64 is modelled by *)
(* the integer number of tenths it denotes (5.5 is 55).                    *)
(***************************************************************************)
EXTENDS Integers, Sequences, FiniteSets, TLC

VARIABLES
    endpoint,        \* adapter.endpoint: the parsed endpoint template
    ortbReq,         \* the auction request object, mutated in place by MakeRequests
    origReq,         \* history: the auction request as first handed to the adapter
    calls,           \* history: number of MakeRequests calls made on ortbReq
    reqData,         \* first return value of the last MakeRequests call
    reqErrs,         \* second return value of the last MakeRequests call
    respData,        \* the upstream reply handed to MakeBids
    bidderResponse,  \* first return value of MakeBids
    bidErrs,         \* second return value of MakeBids
    mapped           \* TRUE once MakeBids has returned

vars == <<endpoint, ortbReq, origReq, calls, reqData, reqErrs,
          respData, bidderResponse, bidErrs, mapped>>

(***************************************************************************)
(* Bounds of the model.                                                    *)
(***************************************************************************)
MaxImps == 2     \* line items per auction request
MaxCalls == 3    \* MakeRequests calls on one request object
MaxBids == 2     \* bids in the first seat of a reply

(***************************************************************************)
(* JSON values.                                                            *)
(***************************************************************************)
Absent == [k |-> "absent", v |-> ""]
Str(s) == [k |-> "str", v |-> s]
Num(s) == [k |-> "num", v |-> s]

\* strconv.ParseFloat on the literals of the model, in tenths.
ParseFloat(lit) ==
    CASE lit = "0"    -> 0
      [] lit = "0.0"  -> 0
      [] lit = "2"    -> 20
      [] lit = "5.5"  -> 55
      [] lit = "5.50" -> 55

\* The shortest literal encoding/json writes for a float64, from tenths.
FormatFloat(f) ==
    CASE f = 0  -> "0"
      [] f = 20 -> "2"
      [] f = 55 -> "5.5"

\* A JSON object with the keys endpoint and bid, as the text of imp.ext.bidder
\* or of imp.ext.mocktioneer.  form: "absent" (no such key), "scalar" (a valid
\* JSON value that is no object) or "obj".
NoObj == [form |-> "absent", endpoint |-> Absent, bid |-> Absent]
ScalarObj == [form |-> "scalar", endpoint |-> Absent, bid |-> Absent]
Obj(e, b) == [form |-> "obj", endpoint |-> e, bid |-> b]

\* The raw bytes of imp.Ext.  form: "nil" (no bytes), "bad" (bytes that are
\* not a JSON object) or "obj" (an object with the keys bidder and mocktioneer).
NilExt == [form |-> "nil", bidder |-> NoObj, mocktioneer |-> NoObj]
BadExt == [form |-> "bad", bidder |-> NoObj, mocktioneer |-> NoObj]
ExtObj(b, m) == [form |-> "obj", bidder |-> b, mocktioneer |-> m]

(***************************************************************************)
(* Construction and endpoint templates.  A template text is a sequence of  *)
(* pieces: literal text, an action {{.Field}}, or an action left unclosed. *)
(***************************************************************************)
Lit(s) == [k |-> "lit", v |-> s]
Macro(f) == [k |-> "macro", v |-> f]
Unclosed == [k |-> "unclosed", v |-> ""]

DefaultEndpoint == <<Lit("https://mocktioneer.edgecompute.app/openrtb2/auction")>>

\* Builder: the default endpoint when none is configured; a template that does
\* not parse fails the construction.
Builder(cfgEndpoint) ==
    LET text == IF cfgEndpoint = <<>> THEN DefaultEndpoint ELSE cfgEndpoint
    IN  IF \E i \in 1..Len(text) : text[i].k = "unclosed"
        THEN [err |-> TRUE, tmpl |-> <<>>]
        ELSE [err |-> FALSE, tmpl |-> text]

\* The fields of macros.EndpointTemplateParams a template may name.
EndpointTemplateParamFields == {"Host", "PublisherID", "ZoneID", "AccountID"}

\* macros.EndpointTemplateParams{}: every field the empty string.
EmptyParams == [f \in EndpointTemplateParamFields |-> ""]

RECURSIVE Execute(_, _)
\* template.Execute: the text with every action replaced by the value of its
\* field; an action naming no field of the parameters is an error.
Execute(tmpl, params) ==
    IF tmpl = <<>> THEN [err |-> FALSE, out |-> ""]
    ELSE LET rest == Execute(Tail(tmpl), params)
             piece == Head(tmpl)
         IN  IF rest.err THEN rest
             ELSE IF piece.k = "lit"
                  THEN [err |-> FALSE, out |-> piece.v \o rest.out]
             ELSE IF piece.v \in DOMAIN params
                  THEN [err |-> FALSE, out |-> params[piece.v] \o rest.out]
             ELSE [err |-> TRUE, out |-> ""]

\* macros.ResolveMacros
ResolveMacros(aTemplate, params) ==
    LET r == Execute(aTemplate, params)
    IN  IF r.err THEN [err |-> TRUE, url |-> ""] ELSE [err |-> FALSE, url |-> r.out]

(***************************************************************************)
(* Request building.                                                       *)
(***************************************************************************)
TemplateError == [type |-> "template", Message |-> "can't evaluate field"]
MarshalError == [type |-> "json", Message |-> "error calling MarshalJSON"]

\* The zero value of openrtb_ext.ExtMocktioneer.
ZeroExtMocktioneer == [Endpoint |-> "", Bid |-> 0]

\* jsonutil.Unmarshal(imp.Ext, &bidderExt): only an object decodes; its bidder
\* key, when present, is kept as raw bytes.
UnmarshalExtImpBidder(raw) ==
    IF raw.form = "obj"
    THEN [err |-> FALSE, Bidder |-> raw.bidder]
    ELSE [err |-> TRUE, Bidder |-> NoObj]

\* jsonutil.Unmarshal(bidderExt.Bidder, &ext): no bytes, a value that is no
\* object, an endpoint that is no string or a bid that is no number fail.
UnmarshalExtMocktioneer(raw) ==
    IF /\ raw.form = "obj"
       /\ raw.endpoint.k \in {"absent", "str"}
       /\ raw.bid.k \in {"absent", "num"}
    THEN [err |-> FALSE,
          ext |-> [Endpoint |-> IF raw.endpoint.k = "str" THEN raw.endpoint.v ELSE "",
                   Bid |-> IF raw.bid.k = "num" THEN ParseFloat(raw.bid.v) ELSE 0]]
    ELSE [err |-> TRUE, ext |-> ZeroExtMocktioneer]

\* An accidental second reading of the extension: with no bidder key, the
\* adapter's own key at the top level is read instead.
parseImpExtAlsoTopLevel(imp) ==
    LET w == UnmarshalExtImpBidder(imp.Ext)
    IN  IF w.err THEN [err |-> TRUE, ext |-> ZeroExtMocktioneer]
        ELSE UnmarshalExtMocktioneer(
                 IF w.Bidder.form = "absent" THEN imp.Ext.mocktioneer ELSE w.Bidder)

parseImpExt(imp) ==
    LET w == UnmarshalExtImpBidder(imp.Ext)
    IN  IF w.err THEN [err |-> TRUE, ext |-> ZeroExtMocktioneer]
        ELSE UnmarshalExtMocktioneer(w.Bidder)

\* json.Marshal(&upstreamExt{Mocktioneer: &upstreamExtMock{Bid: bid}})
MarshalUpstreamExt(bid) ==
    [err |-> FALSE, raw |-> ExtObj(NoObj, Obj(Absent, Num(FormatFloat(bid))))]

\* The override scan reading every line item instead of line item zero.
EndpointOverrideAnyImp(imps) ==
    LET hits == {i \in 1..Len(imps) :
                    ~parseImpExt(imps[i]).err /\ parseImpExt(imps[i]).ext.Endpoint # ""}
    IN  IF hits = {} THEN ""
        ELSE parseImpExt(imps[CHOOSE i \in hits : \A j \in hits : i <= j]).ext.Endpoint

\* The per-imp endpoint override: line item zero's, or none ("").
EndpointOverride(imps) ==
    IF Len(imps) > 0
    THEN LET p == parseImpExt(imps[1])
         IN  IF ~p.err /\ p.ext.Endpoint # "" THEN p.ext.Endpoint ELSE ""
    ELSE ""

\* The rewriting that leaves an extension it cannot parse as it is.
RewriteExtKeepUnparsed(imp) ==
    LET p == parseImpExt(imp)
    IN  IF ~p.err
        THEN IF p.ext.Bid # 0
             THEN MarshalUpstreamExt(p.ext.Bid).raw
             ELSE NilExt
        ELSE imp.Ext

\* The body of the loop over the line items: the new value of imp.Ext.
RewriteExt(imp) ==
    LET p == parseImpExt(imp)
    IN  IF ~p.err
        THEN IF p.ext.Bid # 0
             THEN LET m == MarshalUpstreamExt(p.ext.Bid)
                  IN  IF ~m.err THEN m.raw ELSE imp.Ext
             ELSE NilExt
        ELSE NilExt

\* The loop dropping the line items it clears.
RewriteImpsDropCleared(imps) ==
    LET kept == SelectSeq(imps, LAMBDA imp : RewriteExt(imp) # NilExt)
    IN  [i \in 1..Len(kept) |-> [kept[i] EXCEPT !.Ext = RewriteExt(kept[i])]]

\* for i := range ortbReq.Imp
RewriteImps(imps) ==
    [i \in 1..Len(imps) |-> [imps[i] EXCEPT !.Ext = RewriteExt(imps[i])]]

\* getHeaders
getHeaders(req) ==
    LET d == req.Device
    IN  <<  <<"Content-Type", "application/json;charset=utf-8">>,
            <<"Accept", "application/json">>,
            <<"X-Openrtb-Version", "2.5">>  >>
        \o (IF d.present /\ d.UA # "" THEN << <<"User-Agent", d.UA>> >> ELSE <<>>)
        \o (IF d.present /\ d.IPv6 # "" THEN << <<"X-Forwarded-For", d.IPv6>> >> ELSE <<>>)
        \o (IF d.present /\ d.IP # "" THEN << <<"X-Forwarded-For", d.IP>> >> ELSE <<>>)

\* openrtb_ext.GetImpIDs
GetImpIDs(imps) == [i \in 1..Len(imps) |-> imps[i].ID]

\* json.Marshal(ortbReq): raw bytes that are no JSON fail the encoding.
MarshalRequest(req) ==
    IF req.Ext = "bad" \/ \E i \in 1..Len(req.Imp) : req.Imp[i].Ext.form = "bad"
    THEN [err |-> TRUE, body |-> <<>>]
    ELSE [err |-> FALSE, body |-> <<req>>]

\* The return path that hands out the request although the encoding failed.
MakeRequestsReturnIgnoringMarshalError(req, override, tmpl) ==
    LET r == IF override = "" THEN ResolveMacros(tmpl, EmptyParams)
             ELSE [err |-> FALSE, url |-> override]
        m == MarshalRequest(req)
    IN  IF r.err THEN [reqs |-> <<>>, errs |-> <<TemplateError>>]
        ELSE [reqs |-> << [Method |-> "POST", Uri |-> r.url, Body |-> m.body,
                           Headers |-> getHeaders(req),
                           ImpIDs |-> GetImpIDs(req.Imp)] >>,
              errs |-> IF m.err THEN <<MarshalError>> ELSE <<>>]

\* MakeRequests after the loop: the values returned for the rewritten request.
MakeRequestsReturn(req, override, tmpl) ==
    LET r == IF override = "" THEN ResolveMacros(tmpl, EmptyParams)
             ELSE [err |-> FALSE, url |-> override]
        m == MarshalRequest(req)
    IN  IF r.err THEN [reqs |-> <<>>, errs |-> <<TemplateError>>]
        ELSE IF m.err THEN [reqs |-> <<>>, errs |-> <<MarshalError>>]
        ELSE [reqs |-> << [Method |-> "POST", Uri |-> r.url, Body |-> m.body,
                           Headers |-> getHeaders(req),
                           ImpIDs |-> GetImpIDs(req.Imp)] >>,
              errs |-> <<>>]

\* One call of MakeRequests on the request object; the model stops after
\* MaxCalls calls.
MakeRequests ==
    /\ calls < MaxCalls
    /\ LET override == EndpointOverride(ortbReq.Imp)
           rewritten == [ortbReq EXCEPT !.Imp = RewriteImps(ortbReq.Imp)]
           ret == MakeRequestsReturn(rewritten, override, endpoint)
       IN  /\ ortbReq' = rewritten
           /\ reqData' = ret.reqs
           /\ reqErrs' = ret.errs
    /\ calls' = calls + 1
    /\ UNCHANGED <<endpoint, origReq, respData, bidderResponse, bidErrs, mapped>>

(***************************************************************************)
(* Response mapping.                                                       *)
(***************************************************************************)
StatusOK == 200
StatusNoContent == 204

BadServerResponse(msg) == [type |-> "BadServerResponse", Message |-> msg]

\* The nil *adapters.BidderResponse.
NilBidderResponse == [present |-> FALSE, Currency |-> "", Bids |-> <<>>]

\* adapters.NewBidderResponseWithBidsCapacity: no bids, the default currency.
NewBidderResponseWithBidsCapacity ==
    [present |-> TRUE, Currency |-> "USD", Bids |-> <<>>]

\* jsonutil.Unmarshal(respData.Body, &bidResp): only an envelope decodes.
UnmarshalBidResponse(body) ==
    IF body.form = "obj"
    THEN [err |-> FALSE, bidResp |-> [Cur |-> body.Cur, SeatBid |-> body.SeatBid]]
    ELSE [err |-> TRUE, bidResp |-> [Cur |-> "", SeatBid |-> <<>>]]

\* The scan giving native precedence over video.
mediaTypeForImpNativeFirst(impID, imps) ==
    LET hits == {i \in 1..Len(imps) : imps[i].ID = impID}
    IN  IF hits = {} THEN "banner"
        ELSE LET imp == imps[CHOOSE i \in hits : \A j \in hits : i <= j]
             IN  IF imp.Native THEN "native"
                 ELSE IF imp.Video THEN "video" ELSE "banner"

RECURSIVE mediaTypeForImp(_, _)
mediaTypeForImp(impID, imps) ==
    IF imps = <<>> THEN "banner"
    ELSE IF Head(imps).ID = impID
         THEN IF Head(imps).Video THEN "video"
              ELSE IF Head(imps).Native THEN "native"
              ELSE "banner"
         ELSE mediaTypeForImp(impID, Tail(imps))

\* The loop whose entries all refer to one shared bid variable, which holds
\* the last bid of the seat once the loop has ended.
TypedBidsSharedVariable(bids, imps) ==
    [i \in 1..Len(bids) |->
        [Bid |-> bids[Len(bids)], BidType |-> mediaTypeForImp(bids[i].ImpID, imps)]]

\* for _, b := range sb.Bid: one entry per bid, each referring to the bid
\* variable of its own iteration.
TypedBids(bids, imps) ==
    [i \in 1..Len(bids) |->
        [Bid |-> bids[i], BidType |-> mediaTypeForImp(bids[i].ImpID, imps)]]

\* The currency left at its default whatever the envelope says.
ResultCurrencyDefaultOnly(br, cur) == br

\* if bidResp.Cur != "" { br.Currency = bidResp.Cur }
ResultCurrency(br, cur) ==
    IF cur # "" THEN [br EXCEPT !.Currency = cur] ELSE br

\* The status check that takes 204 for an unexpected status like any other.
MakeBidsReturnNoContentAsError(req, resp) ==
    IF resp.StatusCode # StatusOK
    THEN [br |-> NilBidderResponse,
          errs |-> <<BadServerResponse("unexpected status: " \o ToString(resp.StatusCode))>>]
    ELSE LET u == UnmarshalBidResponse(resp.Body)
         IN  IF u.err
             THEN [br |-> NilBidderResponse, errs |-> <<BadServerResponse("invalid JSON")>>]
             ELSE IF Len(u.bidResp.SeatBid) = 0
             THEN [br |-> NilBidderResponse, errs |-> <<BadServerResponse("empty seatbid")>>]
             ELSE [br |-> [ResultCurrency(NewBidderResponseWithBidsCapacity, u.bidResp.Cur)
                              EXCEPT !.Bids = TypedBids(u.bidResp.SeatBid[1].Bid, req.Imp)],
                   errs |-> <<>>]

\* The validation that also rejects a first seat holding no bids.
MakeBidsReturnEmptySeatAsError(req, resp) ==
    IF resp.StatusCode = StatusNoContent
    THEN [br |-> NilBidderResponse, errs |-> <<>>]
    ELSE IF resp.StatusCode # StatusOK
    THEN [br |-> NilBidderResponse,
          errs |-> <<BadServerResponse("unexpected status: " \o ToString(resp.StatusCode))>>]
    ELSE LET u == UnmarshalBidResponse(resp.Body)
         IN  IF u.err
             THEN [br |-> NilBidderResponse, errs |-> <<BadServerResponse("invalid JSON")>>]
             ELSE IF Len(u.bidResp.SeatBid) = 0 \/ Len(u.bidResp.SeatBid[1].Bid) = 0
             THEN [br |-> NilBidderResponse, errs |-> <<BadServerResponse("empty seatbid")>>]
             ELSE [br |-> [ResultCurrency(NewBidderResponseWithBidsCapacity, u.bidResp.Cur)
                              EXCEPT !.Bids = TypedBids(u.bidResp.SeatBid[1].Bid, req.Imp)],
                   errs |-> <<>>]

\* MakeBids: the values returned for a request and a reply.
MakeBidsReturn(req, resp) ==
    IF resp.StatusCode = StatusNoContent
    THEN [br |-> NilBidderResponse, errs |-> <<>>]
    ELSE IF resp.StatusCode # StatusOK
    THEN [br |-> NilBidderResponse,
          errs |-> <<BadServerResponse("unexpected status: " \o ToString(resp.StatusCode))>>]
    ELSE LET u == UnmarshalBidResponse(resp.Body)
         IN  IF u.err
             THEN [br |-> NilBidderResponse, errs |-> <<BadServerResponse("invalid JSON")>>]
             ELSE IF Len(u.bidResp.SeatBid) = 0
             THEN [br |-> NilBidderResponse, errs |-> <<BadServerResponse("empty seatbid")>>]
             ELSE [br |-> [ResultCurrency(NewBidderResponseWithBidsCapacity, u.bidResp.Cur)
                              EXCEPT !.Bids = TypedBids(u.bidResp.SeatBid[1].Bid, req.Imp)],
                   errs |-> <<>>]

(***************************************************************************)
(* The inputs the model draws.                                             *)
(***************************************************************************)
\* Configured endpoints: none, a plain URL, a URL with a macro of the
\* parameter set, a URL with a macro of no field, a text that does not parse.
CfgEndpoints ==
    { <<>>,
      <<Lit("https://cfg/a")>>,
      <<Lit("https://"), Macro("Host"), Lit("/x")>>,
      <<Lit("https://cfg/"), Macro("Nope")>>,
      <<Lit("https://cfg/"), Unclosed>> }

Adapters == {Builder(c).tmpl : c \in {c \in CfgEndpoints : ~Builder(c).err}}

NoDevice == [present |-> FALSE, UA |-> "", IPv6 |-> "", IP |-> ""]
Devices == {NoDevice, [present |-> TRUE, UA |-> "ua", IPv6 |-> "", IP |-> "1.2.3.4"]}

\* The extensions a line item arrives with.
ImpExts ==
    { NilExt,
      BadExt,
      ExtObj(NoObj, NoObj),
      ExtObj(ScalarObj, NoObj),
      ExtObj(Obj(Absent, Absent), NoObj),
      ExtObj(Obj(Absent, Num("5.50")), NoObj),
      ExtObj(Obj(Absent, Str("5.5")), NoObj),
      ExtObj(Obj(Str("https://o1"), Absent), NoObj),
      ExtObj(Obj(Str("https://o2"), Num("2")), NoObj),
      ExtObj(Obj(Str(""), Num("0.0")), NoObj),
      ExtObj(Obj(Num("17"), Num("2")), NoObj),
      ExtObj(NoObj, Obj(Absent, Num("5.5"))) }

Imp(id, video, native, ext) == [ID |-> id, Video |-> video, Native |-> native, Ext |-> ext]

\* The extensions the model also gives to line items with the ID b.
CommonImpExts ==
    { NilExt,
      BadExt,
      ExtObj(Obj(Absent, Num("5.50")), NoObj),
      ExtObj(Obj(Str("https://o2"), Num("2")), NoObj) }

BuildImps ==
    {Imp("a", TRUE, FALSE, e) : e \in ImpExts}
        \cup {Imp("b", FALSE, TRUE, e) : e \in CommonImpExts}

MapImps == {Imp(id, v, n, NilExt) : id \in {"a", "b"}, v \in BOOLEAN, n \in BOOLEAN}

SeqsUpTo(S, n) == UNION {[1..k -> S] : k \in 0..n}

BuildRequests ==
    [Imp : SeqsUpTo(BuildImps, MaxImps), Device : Devices, Ext : {"nil", "bad"}]

MapRequests ==
    [Imp : SeqsUpTo(MapImps, MaxImps), Device : {NoDevice}, Ext : {"nil"}]

Bid(id, impID) == [ID |-> id, ImpID |-> impID]
BidPool == {Bid("1", "a"), Bid("2", "b"), Bid("3", "z"), Bid("4", "a")}
SeatBid(seat, bids) == [Seat |-> seat, Bid |-> bids]
LaterSeats == {<<>>, <<SeatBid("s2", <<Bid("9", "b")>>)>>}

SeatBids ==
    {<<>>} \cup {<<SeatBid("s1", b)>> \o t : b \in SeqsUpTo(BidPool, MaxBids), t \in LaterSeats}

Envelope(cur, seatbid) == [form |-> "obj", Cur |-> cur, SeatBid |-> seatbid]
BadBody == [form |-> "bad", Cur |-> "", SeatBid |-> <<>>]
Bodies == {BadBody} \cup {Envelope(c, s) : c \in {"", "EUR"}, s \in SeatBids}
OtherStatusBodies ==
    {BadBody, Envelope("", <<>>), Envelope("EUR", <<SeatBid("s1", <<Bid("1", "a")>>)>>)}

Responses ==
    [StatusCode : {StatusOK}, Body : Bodies]
        \cup [StatusCode : {StatusNoContent, 404, 500}, Body : OtherStatusBodies]

NoResponse == [StatusCode |-> 0, Body |-> BadBody]

(***************************************************************************)
(* The state machine.                                                      *)
(***************************************************************************)
\* MakeBids on the reply to the outbound request; the model maps one reply.
MakeBids ==
    /\ ~mapped
    /\ \E resp \in Responses :
          LET ret == MakeBidsReturn(ortbReq, resp)
          IN  /\ respData' = resp
              /\ bidderResponse' = ret.br
              /\ bidErrs' = ret.errs
    /\ mapped' = TRUE
    /\ UNCHANGED <<endpoint, ortbReq, origReq, calls, reqData, reqErrs>>

\* A request object fresh from the orchestrator, before any call.
InitBuild ==
    /\ endpoint \in Adapters
    /\ ortbReq \in BuildRequests
    /\ origReq = ortbReq
    /\ calls = 0
    /\ reqData = <<>>
    /\ reqErrs = <<>>
    /\ respData = NoResponse
    /\ bidderResponse = NilBidderResponse
    /\ bidErrs = <<>>
    /\ mapped = FALSE

\* The request object after the build step that issued the outbound request.
InitMap ==
    /\ endpoint = Builder(<<>>).tmpl
    /\ ortbReq \in MapRequests
    /\ origReq = ortbReq
    /\ calls = 1
    /\ reqData = MakeRequestsReturn(ortbReq, EndpointOverride(ortbReq.Imp), endpoint).reqs
    /\ reqErrs = <<>>
    /\ respData = NoResponse
    /\ bidderResponse = NilBidderResponse
    /\ bidErrs = <<>>
    /\ mapped = FALSE

NextBuild == MakeRequests
NextMap == MakeBids

SpecBuild == InitBuild /\ [][NextBuild]_vars
SpecMap == InitMap /\ [][NextMap]_vars

(***************************************************************************)
(* What the specification says of an extension, read off the JSON itself.  *)
(***************************************************************************)
\* The extension is a bidder wrapper holding a well-typed adapter extension.
Wrapped(ext) ==
    /\ ext.form = "obj"
    /\ ext.bidder.form = "obj"
    /\ ext.bidder.endpoint.k # "num"
    /\ ext.bidder.bid.k # "str"

WrappedEndpoint(ext) ==
    IF Wrapped(ext) /\ ext.bidder.endpoint.k = "str" THEN ext.bidder.endpoint.v ELSE ""

WrappedBid(ext) ==
    IF Wrapped(ext) /\ ext.bidder.bid.k = "num" THEN ParseFloat(ext.bidder.bid.v) ELSE 0

\* ext is exactly {"mocktioneer":{"bid":B}}: no bidder wrapper, no endpoint.
IsPassthrough(ext, B) ==
    /\ ext.form = "obj"
    /\ ext.bidder = NoObj
    /\ ext.mocktioneer.form = "obj"
    /\ ext.mocktioneer.endpoint = Absent
    /\ ext.mocktioneer.bid.k = "num"
    /\ ParseFloat(ext.mocktioneer.bid.v) = B

ExpandedTemplate == ResolveMacros(endpoint, EmptyParams)

\* A step of the model is a call of MakeRequests.
Called == calls' = calls + 1

(***************************************************************************)
(* Request building: C1, C2, C3, C4, C10.                                  *)
(***************************************************************************)
\* C1: whenever a call of MakeRequests succeeds, the URI of the outbound
\* request is line item zero's endpoint override if that item's extension
\* parses with a non-empty override, and the configured template expanded with
\* the empty parameter set in every other case (no line items, item zero
\* without override, overrides on later items only).
C1_UriDecidedByLineItemZero ==
    [][ (Called /\ Len(reqData') = 1) =>
            LET o == IF Len(ortbReq.Imp) > 0 THEN WrappedEndpoint(ortbReq.Imp[1].Ext) ELSE ""
            IN  IF o # "" THEN reqData'[1].Uri = o
                ELSE /\ ~ExpandedTemplate.err
                     /\ reqData'[1].Uri = ExpandedTemplate.url ]_vars

\* C1 witness: only the second line item carries an override, and the call
\* answers with the expansion of the template https://{{.Host}}/x.
C1_Witness ==
    /\ calls = 1
    /\ Len(origReq.Imp) = 2
    /\ WrappedEndpoint(origReq.Imp[1].Ext) = ""
    /\ WrappedEndpoint(origReq.Imp[2].Ext) = "https://o2"
    /\ Len(reqData) = 1
    /\ reqData[1].Uri = "https:///x"

\* C2: a call of MakeRequests leaves every line item either with exactly the
\* passthrough extension {"mocktioneer":{"bid":B}}, when its extension parsed as
\* wrapper.adapter-extension with the non-zero bid B, or with no extension at
\* all; no line item keeps a bidder wrapper.
C2_ExtPassthroughOrAbsent ==
    [][ Called =>
            /\ Len(ortbReq'.Imp) = Len(ortbReq.Imp)
            /\ \A i \in 1..Len(ortbReq.Imp) :
                  LET old == ortbReq.Imp[i].Ext
                      new == ortbReq'.Imp[i].Ext
                  IN  /\ IF WrappedBid(old) # 0
                         THEN IsPassthrough(new, WrappedBid(old))
                         ELSE new = NilExt
                      /\ new.bidder = NoObj ]_vars

\* C2 witness: after the call, the item that came with bid 5.50 carries the
\* passthrough with the literal 5.5 and the item that came with bytes that
\* are no JSON carries nothing.
C2_Witness ==
    /\ calls = 1
    /\ Len(origReq.Imp) = 2
    /\ origReq.Imp[1].Ext = ExtObj(Obj(Absent, Num("5.50")), NoObj)
    /\ origReq.Imp[2].Ext = BadExt
    /\ ortbReq.Imp[1].Ext.mocktioneer.bid = Num("5.5")
    /\ ortbReq.Imp[2].Ext = NilExt

\* C3: MakeRequests changes nothing of the auction request but the extension
\* of line items: their number and order, each ID, video and native
\* sub-object, the device and the request's own extension stay as they were,
\* on the success path and on every error path.
C3_OnlyImpExtChanges ==
    /\ Len(ortbReq.Imp) = Len(origReq.Imp)
    /\ \A i \in 1..Len(origReq.Imp) :
          /\ ortbReq.Imp[i].ID = origReq.Imp[i].ID
          /\ ortbReq.Imp[i].Video = origReq.Imp[i].Video
          /\ ortbReq.Imp[i].Native = origReq.Imp[i].Native
    /\ ortbReq.Device = origReq.Device
    /\ ortbReq.Ext = origReq.Ext

\* C3 witness: a call that failed and cleared the extension of two line items.
C3_Witness ==
    /\ calls = 1
    /\ reqData = <<>>
    /\ reqErrs # <<>>
    /\ Len(origReq.Imp) = 2
    /\ origReq.Imp[1].ID = "b"
    /\ origReq.Imp[2].ID = "a"
    /\ origReq.Device.present
    /\ \A i \in 1..2 : origReq.Imp[i].Ext # NilExt /\ ortbReq.Imp[i].Ext = NilExt

\* C4: a call of MakeRequests returns either one outbound request and no
\* error, or no outbound request and at least one error.  The one request is a
\* POST covering the IDs of all line items in their order.  A failing macro
\* expansion, when line item zero gives no override, and a failing encoding of
\* the body give the outcome without request.
C4_OneRequestOrErrors ==
    [][ Called =>
            LET o == IF Len(ortbReq.Imp) > 0 THEN WrappedEndpoint(ortbReq.Imp[1].Ext) ELSE ""
            IN  /\ \/ Len(reqData') = 1 /\ reqErrs' = <<>>
                   \/ reqData' = <<>> /\ Len(reqErrs') >= 1
                /\ Len(reqData') = 1 =>
                      /\ reqData'[1].Method = "POST"
                      /\ Len(reqData'[1].ImpIDs) = Len(ortbReq.Imp)
                      /\ \A i \in 1..Len(ortbReq.Imp) :
                            reqData'[1].ImpIDs[i] = ortbReq.Imp[i].ID
                /\ (o = "" /\ ExpandedTemplate.err) => reqData' = <<>>
                /\ ortbReq.Ext = "bad" => reqData' = <<>> ]_vars

\* C4 witness: the body cannot be encoded although line item zero gave an
\* override: no request, one error.
C4_Witness ==
    /\ calls = 1
    /\ origReq.Ext = "bad"
    /\ Len(origReq.Imp) = 2
    /\ WrappedEndpoint(origReq.Imp[1].Ext) = "https://o1"
    /\ reqData = <<>>
    /\ Len(reqErrs) = 1

\* C10: from the second call of MakeRequests on one request object, every line
\* item's extension is absent and a request that is returned goes to the
\* expanded configured template, whatever the first call did; every call after
\* the second leaves the line items as they are and returns what the second
\* returned.
C10_ConvergesAfterOneCall ==
    /\ [](calls >= 2 =>
            /\ \A i \in 1..Len(ortbReq.Imp) : ortbReq.Imp[i].Ext = NilExt
            /\ Len(reqData) = 1 =>
                  ~ExpandedTemplate.err /\ reqData[1].Uri = ExpandedTemplate.url)
    /\ [][ (calls >= 2 /\ Called) =>
              /\ ortbReq'.Imp = ortbReq.Imp
              /\ reqData' = reqData
              /\ reqErrs' = reqErrs ]_vars

\* C10 witness: the first call took the override of line item zero and
\* forwarded its bid and the bid of the second item; after the second call both
\* extensions are gone and the request goes to the configured URL.
C10_Witness ==
    /\ calls = 2
    /\ Len(origReq.Imp) = 2
    /\ origReq.Imp[1].Ext = ExtObj(Obj(Str("https://o2"), Num("2")), NoObj)
    /\ WrappedBid(origReq.Imp[2].Ext) = 55
    /\ \A i \in 1..2 : ortbReq.Imp[i].Ext = NilExt
    /\ Len(reqData) = 1
    /\ reqData[1].Uri = "https://cfg/a"

(***************************************************************************)
(* Response mapping: C5, C6, C7, C8, C9.                                   *)
(***************************************************************************)
\* The reply is a 200 whose body decoded to an envelope with at least one seat.
MappedEnvelope ==
    /\ mapped
    /\ respData.StatusCode = 200
    /\ respData.Body.form = "obj"
    /\ respData.Body.SeatBid # <<>>

\* C5: MakeBids answers a 204 with no result and no error, and any status other
\* than 200 and 204 with no result and exactly one server-response error whose
\* message carries the status code, whatever the body holds.
C5_StatusDecidesFirst ==
    mapped =>
        /\ respData.StatusCode = 204 =>
              bidderResponse = NilBidderResponse /\ bidErrs = <<>>
        /\ respData.StatusCode \notin {200, 204} =>
              /\ bidderResponse = NilBidderResponse
              /\ Len(bidErrs) = 1
              /\ bidErrs[1].type = "BadServerResponse"
              /\ bidErrs[1].Message = "unexpected status: " \o ToString(respData.StatusCode)

\* C5 witness: a 204 whose body is a valid envelope with a bid gives nothing.
C5_Witness ==
    /\ mapped
    /\ respData.StatusCode = 204
    /\ respData.Body.form = "obj"
    /\ respData.Body.SeatBid # <<>>
    /\ Len(respData.Body.SeatBid[1].Bid) = 1
    /\ bidderResponse = NilBidderResponse
    /\ bidErrs = <<>>

\* C6: for a 200, a body that does not decode and an envelope without seats
\* each give no result and exactly one server-response error; an envelope with
\* at least one seat gives a result and no error, also when its first seat
\* holds no bid.
C6_DecodeAndEmptySeatBid ==
    (mapped /\ respData.StatusCode = 200) =>
        IF respData.Body.form = "obj" /\ respData.Body.SeatBid # <<>>
        THEN bidderResponse.present /\ bidErrs = <<>>
        ELSE /\ bidderResponse = NilBidderResponse
             /\ Len(bidErrs) = 1
             /\ bidErrs[1].type = "BadServerResponse"

\* C6 witness: a 200 with two seats, the first empty: a result without bids
\* and without error.
C6_Witness ==
    /\ MappedEnvelope
    /\ Len(respData.Body.SeatBid) = 2
    /\ respData.Body.SeatBid[1].Bid = <<>>
    /\ bidderResponse.present
    /\ bidderResponse.Bids = <<>>
    /\ bidErrs = <<>>

\* The type the specification gives a bid for the line-item ID id: that of the
\* first line item of the original request with that ID, banner without one.
TypeByFirstMatch(imps, id) ==
    LET hits == {i \in 1..Len(imps) : imps[i].ID = id}
    IN  IF hits = {} THEN "banner"
        ELSE LET first == CHOOSE i \in hits : \A j \in hits : i <= j
             IN  IF imps[first].Video THEN "video"
                 ELSE IF imps[first].Native THEN "native"
                 ELSE "banner"

\* C7: the media type of every returned bid is decided by the original
\* request's line items and the bid's line-item ID alone: video, else native,
\* else banner for the first line item with that ID, banner when there is none.
C7_MediaTypeFromRequest ==
    (mapped /\ bidderResponse.present) =>
        \A i \in 1..Len(bidderResponse.Bids) :
            bidderResponse.Bids[i].BidType =
                TypeByFirstMatch(origReq.Imp, bidderResponse.Bids[i].Bid.ImpID)

\* C7 witness: two line items share the ID a, the first with a video and a
\* native sub-object, the second with neither; bids for z and a come back
\* as banner and video.
C7_Witness ==
    /\ MappedEnvelope
    /\ Len(origReq.Imp) = 2
    /\ origReq.Imp[1] = Imp("a", TRUE, TRUE, NilExt)
    /\ origReq.Imp[2] = Imp("a", FALSE, FALSE, NilExt)
    /\ Len(bidderResponse.Bids) = 2
    /\ bidderResponse.Bids[1] = [Bid |-> Bid("3", "z"), BidType |-> "banner"]
    /\ bidderResponse.Bids[2] = [Bid |-> Bid("4", "a"), BidType |-> "video"]

\* C8: for a 200 with at least one seat, MakeBids returns one entry per bid of
\* the first seat, the i-th entry referring to the i-th bid of that seat, and
\* no bid of a later seat.
C8_OneEntryPerBidInOrder ==
    MappedEnvelope =>
        LET seats == respData.Body.SeatBid
        IN  /\ Len(bidderResponse.Bids) = Len(seats[1].Bid)
            /\ \A i \in 1..Len(seats[1].Bid) : bidderResponse.Bids[i].Bid = seats[1].Bid[i]
            /\ \A s \in 2..Len(seats) : \A j \in 1..Len(seats[s].Bid) :
                  \A i \in 1..Len(bidderResponse.Bids) :
                      bidderResponse.Bids[i].Bid # seats[s].Bid[j]

\* C8 witness: two different bids in the first seat and a second seat; the
\* result holds the two bids in the order of the reply.
C8_Witness ==
    /\ MappedEnvelope
    /\ Len(respData.Body.SeatBid) = 2
    /\ respData.Body.SeatBid[1].Bid = <<Bid("2", "b"), Bid("1", "a")>>
    /\ Len(bidderResponse.Bids) = 2
    /\ bidderResponse.Bids[1].Bid = Bid("2", "b")
    /\ bidderResponse.Bids[2].Bid = Bid("1", "a")

\* C9: the currency of a result is the envelope's currency code when that is
\* not empty, and the default currency of a freshly created result otherwise.
C9_CurrencyFromEnvelope ==
    (mapped /\ bidderResponse.present) =>
        bidderResponse.Currency =
            IF respData.Body.Cur # "" THEN respData.Body.Cur
            ELSE NewBidderResponseWithBidsCapacity.Currency

\* C9 witness: an envelope in EUR with a bid gives a result in EUR.
C9_Witness ==
    /\ MappedEnvelope
    /\ respData.Body.Cur = "EUR"
    /\ Len(bidderResponse.Bids) >= 1
    /\ bidderResponse.Currency = "EUR"
    /\ bidderResponse.Currency # NewBidderResponseWithBidsCapacity.Currency

====
